---- MODULE Spec2Model ----
(***************************************************************************)
(* Model of the phoebe-client session / authentication / command-dispatch  *)
(* layer: BaseAPI, SessionAPI and PhoebeAPI (server_api.py) composed by    *)
(* PhoebeClient (client.py).                                               *)
(*                                                                         *)
(* The client is single-threaded and synchronous, so one Facade call is    *)
(* one atomic step.  The outcome of each HTTP request (the server's        *)
(* answer, or a network failure) is an input of the step.                  *)
(*                                                                         *)
(* Python values: None is the string "<None>", the empty string is "",     *)
(* dicts are functions with string domains, an exception is a record       *)
(* [type, msg, cause] where msg is the sequence of the fragments the       *)
(* f-string joins and cause is the chain of `raise ... from e` types.      *)
(***************************************************************************)
EXTENDS Integers, Sequences, FiniteSets, TLC

VARIABLES
    sessions_token,   \* PhoebeClient.sessions._token
    phoebe_token,     \* PhoebeClient.phoebe._token
    session_id,       \* PhoebeClient.phoebe.session_id
    depth,            \* number of `with client:` scopes currently entered
    reqs,             \* the HTTP requests sent by the last Facade call, in order
    last,             \* the Facade call that has just returned or raised: what it
                      \* was, saw and gave its caller; "idle" between calls
    prev,             \* history: what the call before `last` left behind (PrevOf)
    started           \* history: id bound by the last successful start_session
                      \* while no later call has changed the binding

vars == <<sessions_token, phoebe_token, session_id, depth, reqs, last, prev, started>>

----------------------------------------------------------------------------
(* Bounds of the model                                                     *)

NumTokens == 2
NumSessions == 2
MaxDepth == 1

----------------------------------------------------------------------------
(* Python values                                                           *)

None == "<None>"

\* Python truthiness of a `str | None` value
Truthy(v) == v \notin {None, ""}

TokenNames == <<"t1", "t2", "t3", "t4">>
SessionNames == <<"s1", "s2", "s3", "s4">>
Tokens == {TokenNames[i] : i \in 1..NumTokens}
SessionIds == {SessionNames[i] : i \in 1..NumSessions}

\* an optional dict (a json= argument, a return value)
Absent == [present |-> FALSE, val |-> <<>>]
Present(v) == [present |-> TRUE, val |-> v]

EmptyDict == <<>>

\* dict.get(key)
Get(d, k) == IF k \in DOMAIN d THEN d[k] ELSE None

\* {**a, **b}
Merge(a, b) == [k \in (DOMAIN a) \cup (DOMAIN b) |-> IF k \in DOMAIN b THEN b[k] ELSE a[k]]

Contains(msg, frag) == \E i \in DOMAIN msg : msg[i] = frag

NoExc == [type |-> "None", msg |-> <<>>, cause |-> <<>>]
Exc(type, msg, cause) == [type |-> type, msg |-> msg, cause |-> cause]

----------------------------------------------------------------------------
(* Connection parameters and the Credential Holder: BaseAPI                *)

DEFAULT_HOST == "localhost"
DEFAULT_PORT == "8001"
DEFAULT_TIMEOUT == 120

base_url == "http://" \o DEFAULT_HOST \o ":" \o DEFAULT_PORT

\* variant of get_headers: `if self._token is not None`
get_headers_NotNone(token) ==
    IF token # None
    THEN ("Content-Type" :> "application/json") @@ ("Authorization" :> ("Bearer " \o token))
    ELSE ("Content-Type" :> "application/json")

\* variant of get_headers: the token is sent without the Bearer scheme
get_headers_NoScheme(token) ==
    IF Truthy(token)
    THEN ("Content-Type" :> "application/json") @@ ("Authorization" :> token)
    ELSE ("Content-Type" :> "application/json")

\* BaseAPI._get_headers
get_headers(token) ==
    IF Truthy(token)
    THEN ("Content-Type" :> "application/json") @@ ("Authorization" :> ("Bearer " \o token))
    ELSE ("Content-Type" :> "application/json")

----------------------------------------------------------------------------
(* Transport outcomes: what requests.request / raise_for_status can give   *)

OkStatus == "200"
AuthStatuses == {"401", "403"}
ErrorStatuses == {"401", "403", "404", "500"}
NetErrors == {"ConnectionError", "Timeout"}

Resp2xx(body) == [kind |-> "ok", status |-> OkStatus, err |-> None, body |-> body]
RespHttp(st) == [kind |-> "http", status |-> st, err |-> "HTTPError", body |-> EmptyDict]
RespNet(e) == [kind |-> "net", status |-> None, err |-> e, body |-> EmptyDict]
NoResp == [kind |-> "none", status |-> None, err |-> None, body |-> EmptyDict]

Failures == {RespHttp(st) : st \in ErrorStatuses} \cup {RespNet(e) : e \in NetErrors}

\* str(e) of the HTTPError that response.raise_for_status() raises
HTTPErrorStr(st, url) ==
    <<st, IF st = "500" THEN " Server Error: " ELSE " Client Error: ", " for url: ", url>>

\* str(e) of a network-level requests.RequestException
NetErrorStr(e, url) == <<e, ": ", url>>

Request(method, url, json, token) ==
    [method |-> method, url |-> url, headers |-> get_headers(token),
     timeout |-> DEFAULT_TIMEOUT, json |-> json]

----------------------------------------------------------------------------
(* SessionAPI                                                              *)

\* variant of RequestExc: 401/403 not told apart from the other statuses
RequestExc_NoAuthFlag(resp, url) ==
    CASE resp.kind = "ok" -> NoExc
      [] resp.kind = "http" ->
            Exc("SessionError", <<"Request failed: ">> \o HTTPErrorStr(resp.status, url),
                <<"HTTPError">>)
      [] OTHER ->
            Exc("SessionError", <<"Request failed: ">> \o NetErrorStr(resp.err, url),
                <<resp.err>>)

\* the except clauses of SessionAPI._request
RequestExc(resp, url) ==
    CASE resp.kind = "ok" -> NoExc
      [] resp.kind = "http" /\ resp.status \in AuthStatuses ->
            Exc("SessionError",
                <<"Server authentication failed (status ", resp.status, ").">>,
                <<"HTTPError">>)
      [] resp.kind = "http" ->
            Exc("SessionError", <<"Request failed: ">> \o HTTPErrorStr(resp.status, url),
                <<"HTTPError">>)
      [] OTHER ->
            Exc("SessionError", <<"Request failed: ">> \o NetErrorStr(resp.err, url),
                <<resp.err>>)

\* SessionAPI._request: the request sent, the exception raised, the value returned
request(method, endpoint, json, token, resp) ==
    LET url == base_url \o endpoint
    IN [req |-> Request(method, url, json, token),
        exc |-> RequestExc(resp, url),
        result |-> IF resp.kind = "ok" THEN Present(resp.body) ELSE Absent]

\* variant of AuthWrap: the SessionError is let through
AuthWrap_Reraise(exc) == exc

\* `except SessionError as e: raise AuthenticationError(str(e)) from e`
AuthWrap(exc) ==
    IF exc.type = "SessionError"
    THEN Exc("AuthenticationError", exc.msg, <<"SessionError">> \o exc.cause)
    ELSE exc

\* variant of CaptureToken: the returned token is not stored
CaptureToken_Never(old, result) == old

\* `token = result.get('access_token'); if token: self.set_token(token)`
CaptureToken(old, result) ==
    IF result.present /\ Truthy(Get(result.val, "access_token"))
    THEN Get(result.val, "access_token")
    ELSE old

\* SessionAPI.register / SessionAPI.login: both post a body, capture the token
\* and re-wrap a SessionError
AuthCall(endpoint, body, token, resp) ==
    LET r == request("POST", endpoint, Present(body), token, resp)
    IN [req |-> r.req,
        exc |-> AuthWrap(r.exc),
        result |-> r.result,
        token |-> IF r.exc = NoExc THEN CaptureToken(token, r.result) ELSE token]

RegisterBody(email, password, first_name, last_name) ==
    [email |-> email, password |-> password, first_name |-> first_name,
     last_name |-> last_name]

LoginBody(email, password) == [email |-> email, password |-> password]

----------------------------------------------------------------------------
(* PhoebeAPI                                                               *)

\* variant of ExecuteGuard: `if self.session_id is None`
ExecuteGuard_IsNone(sid) == sid = None

\* `if not self.session_id: raise ValueError(...)`
ExecuteGuard(sid) == ~Truthy(sid)

\* variant of ExecuteExc: the except clauses of SessionAPI._request
ExecuteExc_AsSessionError(resp, url) == RequestExc(resp, url)

\* the except clauses of PhoebeAPI.execute
ExecuteExc(resp, url) ==
    CASE resp.kind = "ok" -> NoExc
      [] resp.kind = "http" /\ resp.status \in AuthStatuses ->
            Exc("CommandError",
                <<"Server authentication failed (status ", resp.status, ").">>,
                <<"HTTPError">>)
      [] resp.kind = "http" ->
            Exc("CommandError", <<"Command failed: ">> \o HTTPErrorStr(resp.status, url),
                <<"HTTPError">>)
      [] OTHER ->
            Exc("CommandError", <<"Command failed: ">> \o NetErrorStr(resp.err, url),
                <<resp.err>>)

\* utils.serialization.make_json_serializable on one value: a floating-point
\* special becomes JSON null, a JSON-safe primitive is kept
SanitizeValue(v) == IF v \in {"nan", "inf"} THEN None ELSE v

make_json_serializable(payload) == [k \in DOMAIN payload |-> SanitizeValue(payload[k])]

\* variant of Payload: a "command" key of args wins over the command name
Payload_ArgsWin(command, args) ==
    Merge([command |-> command], IF args.present THEN args.val ELSE EmptyDict)

\* `payload = {**(args or {}), 'command': command}`
Payload(command, args) ==
    Merge(IF args.present THEN args.val ELSE EmptyDict, [command |-> command])

ExecuteUrl(sid) == base_url \o "/send/" \o sid

\* PhoebeAPI.execute: the requests sent, the exception raised, the value returned
execute(sid, token, command, args, resp) ==
    IF ExecuteGuard(sid)
    THEN [reqs |-> <<>>,
          exc |-> Exc("ValueError", <<"No session ID set. Call set_session_id() first.">>, <<>>),
          result |-> Absent,
          resp |-> NoResp]
    ELSE [reqs |-> <<Request("POST", ExecuteUrl(sid),
                             Present(make_json_serializable(Payload(command, args))), token)>>,
          exc |-> ExecuteExc(resp, ExecuteUrl(sid)),
          result |-> IF resp.kind = "ok" THEN Present(resp.body) ELSE Absent,
          resp |-> resp]

----------------------------------------------------------------------------
(* Inputs                                                                  *)

Emails == {"a@b.com"}
Passwords == {"x"}
Values == {"v1", "nan"}
Kwargs == {EmptyDict, [twig |-> "v1"], [command |-> "v1"]}
Commands == {"custom"}
Metadata == {Absent, Present([note |-> "m"])}
BodyErrors == {"KeyError", "CommandError"}

\* bodies a 2xx answer of /auth/register and /auth/login can carry
AuthBodies ==
    {EmptyDict} \cup
    {[access_token |-> t, token_type |-> "bearer"] : t \in Tokens \cup {""}}

\* bodies a 2xx answer of /dash/start-session can carry
StartBodies == {EmptyDict} \cup {[session_id |-> s] : s \in SessionIds \cup {""}}

InfoBodies == {[status |-> "ok"]}
ResultBodies == {[result |-> "r1"], [result |-> "r2"]}

Responses(bodies) == Failures \cup {Resp2xx(b) : b \in bodies}

DomainMethods ==
    {"set_morphology", "attach_parameters", "get_parameter", "is_parameter_constrained",
     "update_uniqueid", "get_value", "set_value", "add_dataset", "remove_dataset",
     "get_datasets", "run_compute", "run_solver", "get_bundle", "load_bundle",
     "save_bundle"}

ExecOps == {"execute"} \cup DomainMethods

\* the args mapping each domain method of PhoebeClient hands to execute
DomainArgs(m, x, kwargs) ==
    CASE m = "set_morphology" -> [morphology |-> x]
      [] m = "attach_parameters" -> [parameters |-> x]
      [] m = "get_parameter" -> Merge([qualifier |-> x], kwargs)
      [] m = "is_parameter_constrained" -> [uniqueid |-> x]
      [] m = "update_uniqueid" -> [twig |-> x]
      [] m = "set_value" -> Merge([value |-> x], kwargs)
      [] m = "remove_dataset" -> [dataset |-> x]
      [] m = "load_bundle" -> [bundle |-> x]
      [] m \in {"get_value", "add_dataset", "run_compute", "run_solver"} -> kwargs
      [] OTHER -> EmptyDict

\* whether the method takes **kwargs
UsesKwargs(m) ==
    m \in {"get_parameter", "set_value", "get_value", "add_dataset", "run_compute",
           "run_solver"}

----------------------------------------------------------------------------
(* The record of a Facade call                                             *)

Snapshot ==
    [stok |-> sessions_token, ptok |-> phoebe_token, sid |-> session_id, depth |-> depth]

NoPrev == [kind |-> "none", tok |-> None, old |-> None]

\* what the call recorded in `last` left for the call after it: a token just
\* obtained by login/register, a bound session just ended by end_session(), a
\* session other than the bound one just ended by end_session(id), a token just
\* cleared by set_token(None), or a session just started by __enter__
PrevOf(l) ==
    CASE l.op \in {"login", "register"} /\ l.exc = NoExc /\ l.ret.present
            /\ Truthy(Get(l.ret.val, "access_token")) ->
            [kind |-> "auth", tok |-> Get(l.ret.val, "access_token"), old |-> l.pre.stok]
      [] l.op = "end_session" /\ l.exc = NoExc /\ l.arg = None /\ Truthy(l.pre.sid) ->
            [kind |-> "ended", tok |-> None, old |-> l.pre.sid]
      [] l.op = "end_session" /\ l.exc = NoExc /\ Truthy(l.arg) /\ Truthy(l.pre.sid)
            /\ l.arg # l.pre.sid ->
            [kind |-> "endedother", tok |-> l.arg, old |-> l.pre.sid]
      [] l.op = "set_token" /\ l.arg = None /\ Truthy(l.pre.stok) ->
            [kind |-> "cleared", tok |-> None, old |-> l.pre.stok]
      [] l.op = "enter" /\ l.exc = NoExc /\ l.resp.kind = "ok" ->
            [kind |-> "entered", tok |-> None, old |-> Get(l.resp.body, "session_id")]
      [] OTHER -> NoPrev

Call(op, arg, bodyErr, resp, exc, ret) ==
    [op |-> op, arg |-> arg, args |-> Absent, bodyErr |-> bodyErr, pre |-> Snapshot,
     resp |-> resp, exc |-> exc, ret |-> ret]

\* the record of a call of execute, with the args mapping it was handed
ExecCall(op, command, args, r) ==
    [Call(op, command, None, r.resp, r.exc, r.result) EXCEPT !.args = args]

\* between two Facade calls
IdleCall ==
    [op |-> "idle", arg |-> None, args |-> Absent, bodyErr |-> None,
     pre |-> [stok |-> None, ptok |-> None, sid |-> None, depth |-> 0],
     resp |-> NoResp, exc |-> NoExc, ret |-> Absent]

Idle == last.op = "idle"

----------------------------------------------------------------------------
(* PhoebeClient                                                            *)

\* variant of StartBind: the returned id is not bound
StartBind_Keep(response, bound) == bound

\* variant of StartBind: the returned id is bound only when none is bound
StartBind_IfUnbound(response, bound) ==
    IF Truthy(bound) THEN bound ELSE Get(response, "session_id")

\* `self.phoebe.set_session_id(response.get("session_id"))`
StartBind(response, bound) == Get(response, "session_id")

\* variant of InitRequests: the constructor starts a session whatever the flag
InitRequests_Always(auto_session, req) == <<req>>

\* `if auto_session: self.start_session()`: the requests of the constructor
InitRequests(auto_session, req) == IF auto_session THEN <<req>> ELSE <<>>

\* PhoebeClient.__init__: the two sub-clients hold no token and no session id;
\* with auto_session the constructor calls start_session, and the client
\* exists only if that call did not raise
Init ==
    /\ sessions_token = None
    /\ phoebe_token = None
    /\ depth = 0
    /\ prev = NoPrev
    /\ \E auto_session \in BOOLEAN :
        IF auto_session
        THEN \E body \in StartBodies :
                LET r == request("POST", "/dash/start-session", Absent, None, Resp2xx(body))
                IN /\ session_id = StartBind(body, None)
                   /\ started = IF Truthy(Get(body, "session_id"))
                                THEN Get(body, "session_id") ELSE None
                   /\ reqs = InitRequests(TRUE, r.req)
                   /\ last = [op |-> "init", arg |-> "auto_session", args |-> Absent,
                              bodyErr |-> None,
                              pre |-> [stok |-> None, ptok |-> None, sid |-> None, depth |-> 0],
                              resp |-> Resp2xx(body), exc |-> NoExc, ret |-> Absent]
        ELSE /\ session_id = None
             /\ started = None
             /\ reqs = InitRequests(FALSE,
                                    request("POST", "/dash/start-session", Absent, None,
                                            NoResp).req)
             /\ last = [op |-> "init", arg |-> None, args |-> Absent, bodyErr |-> None,
                        pre |-> [stok |-> None, ptok |-> None, sid |-> None, depth |-> 0],
                        resp |-> NoResp, exc |-> NoExc, ret |-> Absent]

\* get_auth_config / get_me / get_sessions: a GET through SessionAPI._request
SessionGet(op, endpoint) ==
    /\ Idle
    /\ \E resp \in Responses(InfoBodies) :
        LET r == request("GET", endpoint, Absent, sessions_token, resp)
        IN /\ reqs' = <<r.req>>
           /\ last' = Call(op, None, None, resp, r.exc, r.result)
           /\ UNCHANGED <<sessions_token, phoebe_token, session_id, depth, started, prev>>

GetAuthConfig == SessionGet("get_auth_config", "/auth/config")
GetMe == SessionGet("get_me", "/auth/me")
GetSessions == SessionGet("get_sessions", "/dash/sessions")

\* variant of PropagateToken: the token stays in the Session Client only
PropagateToken_Forgotten(stok, ptok) == ptok

\* `self.phoebe.set_token(self.sessions._token)`
PropagateToken(stok, ptok) == stok

\* PhoebeClient.register / PhoebeClient.login
FacadeAuth(op, endpoint, body) ==
    /\ Idle
    /\ \E resp \in Responses(AuthBodies) :
        LET r == AuthCall(endpoint, body, sessions_token, resp)
        IN /\ sessions_token' = r.token
           /\ phoebe_token' = IF r.exc = NoExc
                              THEN PropagateToken(r.token, phoebe_token)
                              ELSE phoebe_token
           /\ reqs' = <<r.req>>
           /\ last' = Call(op, None, None, resp, r.exc, r.result)
           /\ UNCHANGED <<session_id, depth, started, prev>>

Register ==
    \E email \in Emails, password \in Passwords :
        FacadeAuth("register", "/auth/register", RegisterBody(email, password, "", ""))

Login ==
    \E email \in Emails, password \in Passwords :
        FacadeAuth("login", "/auth/login", LoginBody(email, password))

\* PhoebeClient.set_token
SetToken ==
    /\ Idle
    /\ \E token \in Tokens \cup {None, ""} :
        /\ sessions_token' = token
        /\ phoebe_token' = token
        /\ reqs' = <<>>
        /\ last' = Call("set_token", token, None, NoResp, NoExc, Absent)
        /\ UNCHANGED <<session_id, depth, started, prev>>

\* PhoebeClient.start_session as a function of the client state: the new
\* binding, the request, the exception and the return value
start_session(metadata, resp) ==
    LET r == request("POST", "/dash/start-session", metadata, sessions_token, resp)
    IN [req |-> r.req, exc |-> r.exc, result |-> r.result,
        sid |-> IF r.exc = NoExc THEN StartBind(r.result.val, session_id) ELSE session_id]

StartedAfterStart(r) ==
    IF r.exc # NoExc THEN started
    ELSE IF Truthy(Get(r.result.val, "session_id")) THEN Get(r.result.val, "session_id")
    ELSE None

StartSession ==
    /\ Idle
    /\ \E metadata \in Metadata, resp \in Responses(StartBodies) :
        LET r == start_session(metadata, resp)
        IN /\ session_id' = r.sid
           /\ started' = StartedAfterStart(r)
           /\ reqs' = <<r.req>>
           /\ last' = Call("start_session", None, None, resp, r.exc, r.result)
           /\ UNCHANGED <<sessions_token, phoebe_token, depth, prev>>

\* PhoebeClient.set_session_id
SetSessionId ==
    /\ Idle
    /\ \E sid \in SessionIds \cup {None, ""} :
        /\ session_id' = sid
        /\ started' = None
        /\ reqs' = <<>>
        /\ last' = Call("set_session_id", sid, None, NoResp, NoExc, Absent)
        /\ UNCHANGED <<sessions_token, phoebe_token, depth, prev>>

\* variant of EndSessionSid: no default to the bound id
EndSessionSid_ArgOnly(arg, bound) == arg

\* `sid = session_id or self.phoebe.session_id`
EndSessionSid(arg, bound) == IF Truthy(arg) THEN arg ELSE bound

\* variant of EndSessionSends: the request is sent whatever sid is
EndSessionSends_Always(sid) == TRUE

\* `if sid:` of end_session
EndSessionSends(sid) == Truthy(sid)

\* variant of EndSessionClear: the binding is cleared whatever id was ended
EndSessionClear_Always(sid, bound) == None

\* variant of EndSessionClear: the binding is kept
EndSessionClear_Never(sid, bound) == bound

\* `if sid == self.phoebe.session_id: self.phoebe.set_session_id(None)`
EndSessionClear(sid, bound) == IF sid = bound THEN None ELSE bound

\* variant of end_session: the binding is cleared before the request is sent
end_session_ClearFirst(arg, resp) ==
    LET sid == EndSessionSid(arg, session_id)
    IN IF EndSessionSends(sid)
       THEN LET r == request("POST", "/dash/end-session/" \o sid, Absent,
                             sessions_token, resp)
            IN [reqs |-> <<r.req>>, exc |-> r.exc, resp |-> resp,
                sid |-> EndSessionClear(sid, session_id)]
       ELSE [reqs |-> <<>>, exc |-> NoExc, resp |-> NoResp, sid |-> session_id]

\* variant of end_session: a failed request is sent once more
end_session_Retry(arg, resp) ==
    LET sid == EndSessionSid(arg, session_id)
    IN IF EndSessionSends(sid)
       THEN LET r == request("POST", "/dash/end-session/" \o sid, Absent,
                             sessions_token, resp)
            IN [reqs |-> IF r.exc = NoExc THEN <<r.req>> ELSE <<r.req, r.req>>,
                exc |-> r.exc, resp |-> resp,
                sid |-> IF r.exc = NoExc THEN EndSessionClear(sid, session_id)
                        ELSE session_id]
       ELSE [reqs |-> <<>>, exc |-> NoExc, resp |-> NoResp, sid |-> session_id]

\* PhoebeClient.end_session as a function of the client state
end_session(arg, resp) ==
    LET sid == EndSessionSid(arg, session_id)
    IN IF EndSessionSends(sid)
       THEN LET r == request("POST", "/dash/end-session/" \o sid, Absent,
                             sessions_token, resp)
            IN [reqs |-> <<r.req>>, exc |-> r.exc, resp |-> resp,
                sid |-> IF r.exc = NoExc THEN EndSessionClear(sid, session_id)
                        ELSE session_id]
       ELSE [reqs |-> <<>>, exc |-> NoExc, resp |-> NoResp, sid |-> session_id]

EndSession ==
    /\ Idle
    /\ \E arg \in SessionIds \cup {None, ""}, resp \in Responses(InfoBodies) :
        LET r == end_session(arg, resp)
        IN /\ session_id' = r.sid
           /\ started' = IF r.sid = session_id THEN started ELSE None
           /\ reqs' = r.reqs
           /\ last' = Call("end_session", arg, None, r.resp, r.exc, Absent)
           /\ UNCHANGED <<sessions_token, phoebe_token, depth, prev>>

\* a direct call of PhoebeClient.phoebe.execute
Execute ==
    /\ Idle
    /\ \E command \in Commands, args \in {Absent} \cup {Present(k) : k \in Kwargs},
       resp \in Responses(ResultBodies) :
        LET r == execute(session_id, phoebe_token, command, args, resp)
        IN /\ reqs' = r.reqs
           /\ last' = ExecCall("execute", command, args, r)
           /\ UNCHANGED <<sessions_token, phoebe_token, session_id, depth, started, prev>>

\* the domain methods of PhoebeClient: each shapes its arguments and calls execute
DomainCall ==
    /\ Idle
    /\ \E m \in DomainMethods, x \in Values, kwargs \in Kwargs,
       resp \in Responses(ResultBodies) :
        /\ UsesKwargs(m) \/ kwargs = EmptyDict
        /\ LET args == Present(DomainArgs(m, x, kwargs))
               r == execute(session_id, phoebe_token, m, args, resp)
           IN /\ reqs' = r.reqs
              /\ last' = ExecCall(m, m, args, r)
              /\ UNCHANGED <<sessions_token, phoebe_token, session_id, depth, started, prev>>

\* variant of EnterStarts: __enter__ starts a session whatever is bound
EnterStarts_Always(sid) == TRUE

\* `if not self.phoebe.session_id:` of __enter__
EnterStarts(sid) == ~Truthy(sid)

\* PhoebeClient.__enter__: the scope is entered only if __enter__ does not raise
Enter ==
    /\ Idle
    /\ depth < MaxDepth
    /\ IF EnterStarts(session_id)
       THEN \E resp \in Responses(StartBodies) :
               LET r == start_session(Absent, resp)
               IN /\ session_id' = r.sid
                  /\ started' = StartedAfterStart(r)
                  /\ reqs' = <<r.req>>
                  /\ depth' = IF r.exc = NoExc THEN depth + 1 ELSE depth
                  /\ last' = Call("enter", None, None, resp, r.exc, Absent)
       ELSE /\ depth' = depth + 1
            /\ reqs' = <<>>
            /\ last' = Call("enter", None, None, NoResp, NoExc, Absent)
            /\ UNCHANGED <<session_id, started, prev>>
    /\ UNCHANGED <<sessions_token, phoebe_token, prev>>

BodyExc(bodyErr) == IF bodyErr = None THEN NoExc ELSE Exc(bodyErr, <<"raised in the body">>, <<>>)

\* what leaves a `with` statement whose body ended with bodyExc and whose
\* __exit__ returned None or raised exitExc: an exception raised by __exit__
\* replaces the one of the body
ExitPropagated(bodyExc, exitExc) == IF exitExc # NoExc THEN exitExc ELSE bodyExc

\* PhoebeClient.__exit__, after a body that completed (bodyErr = None) or raised
Exit ==
    /\ Idle
    /\ depth > 0
    /\ \E bodyErr \in BodyErrors \cup {None}, resp \in Responses(InfoBodies) :
        LET r == end_session(None, resp)
        IN /\ session_id' = r.sid
           /\ started' = IF r.sid = session_id THEN started ELSE None
           /\ reqs' = r.reqs
           /\ depth' = depth - 1
           /\ last' = Call("exit", None, bodyErr, r.resp,
                           ExitPropagated(BodyExc(bodyErr), r.exc), Absent)
           /\ UNCHANGED <<sessions_token, phoebe_token, prev>>

\* the caller has taken the result or the exception of the call and is about
\* to make its next call
Return ==
    /\ ~Idle
    /\ last' = IdleCall
    /\ reqs' = <<>>
    /\ prev' = PrevOf(last)
    /\ UNCHANGED <<sessions_token, phoebe_token, session_id, depth, started>>

Next ==
    \/ GetAuthConfig
    \/ Register
    \/ Login
    \/ SetToken
    \/ GetMe
    \/ StartSession
    \/ SetSessionId
    \/ EndSession
    \/ GetSessions
    \/ Execute
    \/ DomainCall
    \/ Enter
    \/ Exit
    \/ Return

Spec == Init /\ [][Next]_vars

----------------------------------------------------------------------------
(* Properties                                                              *)

EndSessionUrl(sid) == base_url \o "/dash/end-session/" \o sid

CarriesBearer(req, token) ==
    /\ "Authorization" \in DOMAIN req.headers
    /\ req.headers["Authorization"] = "Bearer " \o token

\* C1: whenever no session id is bound, execute and every domain method built
\* on it raise ValueError and send no HTTP request, whatever the token is.
ExecuteWithoutSessionFailsFast ==
    (last.op \in ExecOps /\ ~Truthy(last.pre.sid)) =>
        /\ last.exc.type = "ValueError"
        /\ reqs = <<>>
        /\ ~last.ret.present

\* a domain method called right after end_session() cleared the binding, with
\* a token set
ExecuteWithoutSessionWitness ==
    /\ last.op = "get_value"
    /\ prev.kind = "ended"
    /\ last.pre.ptok \in Tokens
    /\ last.exc.type = "ValueError"
    /\ reqs = <<>>

\* C2: after login or register succeeded and returned access_token t (a
\* non-empty token), every request of the next Facade call, through either
\* sub-client, carries Authorization: Bearer t.
NextRequestCarriesReturnedToken ==
    prev.kind = "auth" => \A i \in DOMAIN reqs : CarriesBearer(reqs[i], prev.tok)

\* t1 was returned while t2 was held, and the execute that follows carries t1
NextRequestCarriesReturnedTokenWitness ==
    /\ prev.kind = "auth"
    /\ prev.tok = "t1"
    /\ prev.old = "t2"
    /\ last.op = "execute"
    /\ Len(reqs) = 1
    /\ CarriesBearer(reqs[1], "t1")

\* C3: between Facade calls, and when one has just returned or raised, the
\* Session Client and the Command Client hold the same token.
TokenSync == sessions_token = phoebe_token

\* a login that replaced t2 by t1 on both sub-clients
TokenSyncWitness ==
    /\ last.op = "login"
    /\ last.exc = NoExc
    /\ last.pre.stok = "t2"
    /\ last.pre.ptok = "t2"
    /\ sessions_token = "t1"
    /\ phoebe_token = "t1"

\* C4: a start_session that succeeds with {session_id: s} binds s, and, s
\* being non-empty, while no start_session, set_session_id or end_session has
\* changed the binding since, the bound id is s and execute and the domain
\* methods POST to /send/s.
StartedSessionIsTargeted ==
    /\ (last.op = "start_session" /\ last.exc = NoExc) =>
        session_id = Get(last.ret.val, "session_id")
    /\ Truthy(started) =>
        /\ session_id = started
        /\ last.op \in ExecOps =>
            /\ Len(reqs) = 1
            /\ reqs[1].method = "POST"
            /\ reqs[1].url = base_url \o "/send/" \o started

\* get_value after start_session bound s1 and a login went in between
StartedSessionIsTargetedWitness ==
    /\ last.op = "get_value"
    /\ started = "s1"
    /\ prev.kind = "auth"
    /\ Len(reqs) = 1
    /\ reqs[1].url = "http://localhost:8001/send/s1"

\* C5: end_session() without an explicit id, with s bound, sends the
\* end-session request for s; when that request succeeds the bound id is None,
\* and an execute that follows raises ValueError without a request.
EndSessionClearsBinding ==
    /\ (last.op = "end_session" /\ last.arg = None /\ Truthy(last.pre.sid)) =>
        /\ Len(reqs) = 1
        /\ reqs[1].method = "POST"
        /\ reqs[1].url = EndSessionUrl(last.pre.sid)
        /\ last.exc = NoExc => session_id = None
    /\ (prev.kind = "ended" /\ last.op \in ExecOps) =>
        /\ last.exc.type = "ValueError"
        /\ reqs = <<>>

\* execute right after end_session() ended the bound s1
EndSessionClearsBindingWitness ==
    /\ prev.kind = "ended"
    /\ prev.old = "s1"
    /\ last.op = "execute"
    /\ last.exc.type = "ValueError"
    /\ session_id = None

\* C6 as stated: scope exit always issues an end-session request for the
\* session id bound at exit time.
ScopeExitAlwaysEndsSession ==
    last.op = "exit" =>
        /\ Len(reqs) = 1
        /\ reqs[1].url = EndSessionUrl(last.pre.sid)

\* C6, amended: scope exit leaves the scope on every exit path and issues
\* exactly one end-session request, for the session id bound at exit time, if
\* one is bound then, and no request if none is; so a session auto-started by
\* scope entry is ended by an exit that follows at once.
ScopeExitEndsBoundSession ==
    /\ last.op = "exit" =>
        /\ depth = last.pre.depth - 1
        /\ IF Truthy(last.pre.sid)
           THEN /\ Len(reqs) = 1
                /\ reqs[1].method = "POST"
                /\ reqs[1].url = EndSessionUrl(last.pre.sid)
           ELSE reqs = <<>>
    /\ (last.op = "exit" /\ prev.kind = "entered" /\ Truthy(prev.old)) =>
        /\ Len(reqs) = 1
        /\ reqs[1].url = EndSessionUrl(prev.old)

\* the body raised right after entry auto-started s1, and exit ends s1
ScopeExitEndsBoundSessionWitness ==
    /\ last.op = "exit"
    /\ last.bodyErr = "KeyError"
    /\ prev.kind = "entered"
    /\ prev.old = "s1"
    /\ Len(reqs) = 1
    /\ reqs[1].url = "http://localhost:8001/dash/end-session/s1"

\* C7: when the body of the scope raised, the caller of the scope receives
\* that error, whatever the outcome of the end-session request.
ScopeBodyErrorPropagates ==
    (last.op = "exit" /\ last.bodyErr # None) => last.exc = BodyExc(last.bodyErr)

\* C8: every failure of login or register (401/403, another non-2xx status, a
\* network failure) reaches the caller as an AuthenticationError, and the
\* status the server answered with appears in its message.
AuthFailuresAreAuthenticationErrors ==
    last.op \in {"login", "register"} =>
        /\ last.exc # NoExc => last.exc.type = "AuthenticationError"
        /\ last.resp.kind # "ok" => last.exc.type = "AuthenticationError"
        /\ last.resp.kind = "http" => Contains(last.exc.msg, last.resp.status)

\* login answered with 403
AuthFailuresWitness ==
    /\ last.op = "login"
    /\ last.resp.status = "403"
    /\ last.exc.type = "AuthenticationError"
    /\ Contains(last.exc.msg, "403")

ExecuteFailuresAreCommandErrors ==
    (last.op \in ExecOps /\ Truthy(last.pre.sid)) =>
        CASE last.resp.kind = "ok" ->
                /\ last.exc = NoExc
                /\ last.ret = Present(last.resp.body)
          [] last.resp.kind = "http" /\ last.resp.status \in AuthStatuses ->
                /\ last.exc.type = "CommandError"
                /\ last.exc.msg[1] = "Server authentication failed (status "
                /\ Contains(last.exc.msg, last.resp.status)
                /\ ~last.ret.present
          [] OTHER ->
                /\ last.exc.type = "CommandError"
                /\ last.exc.msg[1] = "Command failed: "
                /\ last.exc.cause = <<last.resp.err>>
                /\ last.resp.kind = "http" => Contains(last.exc.msg, last.resp.status)
                /\ ~last.ret.present

\* a domain method answered with 401
ExecuteFailuresWitness ==
    /\ last.op = "set_value"
    /\ last.resp.status = "401"
    /\ last.exc.type = "CommandError"
    /\ Contains(last.exc.msg, "401")

StartSessionUrl == base_url \o "/dash/start-session"

IsEndSessionFor(req, sid) == req.method = "POST" /\ req.url = EndSessionUrl(sid)

\* the args mapping of the recorded execute call: `args or {}`
ArgsOf(l) == IF l.args.present THEN l.args.val ELSE EmptyDict

\* C11 as stated: with a session bound, the body execute(c, a) posts is a
\* merged with {command: c}: every key of a other than "command" keeps its
\* value and "command" maps to c.
ExecuteBodyKeepsArgs ==
    (last.op \in ExecOps /\ Truthy(last.pre.sid)) =>
        /\ Len(reqs) = 1
        /\ reqs[1].json.present
        /\ DOMAIN reqs[1].json.val = DOMAIN ArgsOf(last) \cup {"command"}
        /\ reqs[1].json.val["command"] = last.arg
        /\ \A k \in DOMAIN ArgsOf(last) \ {"command"} :
                reqs[1].json.val[k] = ArgsOf(last)[k]

\* C11, amended: the body has the keys of a and "command"; "command" maps to
\* c, also when a has a key "command"; every other key of a maps to the
\* JSON-safe form of its value, which is the value itself when it is JSON-safe.
ExecuteBodyIsSanitizedMerge ==
    (last.op \in ExecOps /\ Truthy(last.pre.sid)) =>
        /\ Len(reqs) = 1
        /\ reqs[1].method = "POST"
        /\ reqs[1].json.present
        /\ DOMAIN reqs[1].json.val = DOMAIN ArgsOf(last) \cup {"command"}
        /\ reqs[1].json.val["command"] = last.arg
        /\ \A k \in DOMAIN ArgsOf(last) \ {"command"} :
                /\ reqs[1].json.val[k] = SanitizeValue(ArgsOf(last)[k])
                /\ ArgsOf(last)[k] \notin {"nan", "inf"} =>
                        reqs[1].json.val[k] = ArgsOf(last)[k]

\* execute("custom", {"command": "v1"}) posts {"command": "custom"}
ExecuteBodyWitness ==
    /\ last.op = "execute"
    /\ last.args = Present([command |-> "v1"])
    /\ Len(reqs) = 1
    /\ reqs[1].json.val = [command |-> "custom"]

\* C12: a client constructed with auto_session has sent exactly one
\* start-session request and has the session_id of the answer bound; one
\* constructed without it has sent nothing and holds no session id; neither
\* holds a token.
ConstructionStartsSessionOnDemand ==
    last.op = "init" =>
        /\ sessions_token = None
        /\ phoebe_token = None
        /\ IF last.arg = "auto_session"
           THEN /\ Len(reqs) = 1
                /\ reqs[1].method = "POST"
                /\ reqs[1].url = StartSessionUrl
                /\ session_id = Get(last.resp.body, "session_id")
           ELSE /\ reqs = <<>>
                /\ session_id = None

\* constructed with auto_session against a server answering {session_id: "s1"}
ConstructionWitness ==
    /\ last.op = "init"
    /\ last.arg = "auto_session"
    /\ last.resp.body = [session_id |-> "s1"]
    /\ session_id = "s1"
    /\ Len(reqs) = 1

\* C13: a Facade call sends at most one HTTP request; when that request
\* fails nothing more is sent and the call raises.
NoRetries ==
    /\ Len(reqs) <= 1
    /\ last.resp.kind \in {"http", "net"} =>
        /\ Len(reqs) = 1
        /\ last.exc # NoExc

\* scope exit whose end-session request timed out
NoRetriesWitness ==
    /\ last.op = "exit"
    /\ last.resp.err = "Timeout"
    /\ Len(reqs) = 1
    /\ last.exc.type = "SessionError"

\* C14: end_session sends the request for the explicit id, or for the bound
\* one when none is given; after a successful request the binding is cleared
\* if and only if the ended id is the bound id; after ending another id the
\* binding is unchanged and execute still posts to /send/<bound id>.
EndSessionClearsOnlyBoundId ==
    /\ last.op = "end_session" =>
        LET sid == IF Truthy(last.arg) THEN last.arg ELSE last.pre.sid
        IN Truthy(sid) =>
            /\ Len(reqs) = 1
            /\ IsEndSessionFor(reqs[1], sid)
            /\ last.exc = NoExc =>
                session_id = IF sid = last.pre.sid THEN None ELSE last.pre.sid
    /\ prev.kind = "endedother" =>
        /\ session_id = prev.old \/ last.op \in {"start_session", "set_session_id",
                                                  "end_session", "exit"}
        /\ last.op \in ExecOps =>
            /\ Len(reqs) = 1
            /\ reqs[1].url = ExecuteUrl(prev.old)

\* s2 was ended while s1 was bound, and get_value still posts to /send/s1
EndSessionOtherIdWitness ==
    /\ prev.kind = "endedother"
    /\ prev.tok = "s2"
    /\ prev.old = "s1"
    /\ last.op = "get_value"
    /\ Len(reqs) = 1
    /\ reqs[1].url = "http://localhost:8001/send/s1"

\* C15: register, login and set_token leave the bound session id alone;
\* start_session, set_session_id, end_session and scope entry and exit leave
\* both tokens alone; with a token and no session id execute raises
\* ValueError; with a session id and no token execute sends its request
\* without an Authorization header.
TokenAndSessionIndependent ==
    /\ last.op \in {"register", "login", "set_token"} => session_id = last.pre.sid
    /\ last.op \in {"start_session", "set_session_id", "end_session", "enter", "exit"} =>
        /\ sessions_token = last.pre.stok
        /\ phoebe_token = last.pre.ptok
    /\ (last.op \in ExecOps /\ Truthy(last.pre.ptok) /\ ~Truthy(last.pre.sid)) =>
        /\ last.exc.type = "ValueError"
        /\ reqs = <<>>
    /\ (last.op \in ExecOps /\ ~Truthy(last.pre.ptok) /\ Truthy(last.pre.sid)) =>
        /\ Len(reqs) = 1
        /\ reqs[1].url = ExecuteUrl(last.pre.sid)
        /\ "Authorization" \notin DOMAIN reqs[1].headers

\* execute with s1 bound and no token: a request without Authorization
TokenAndSessionIndependentWitness ==
    /\ last.op = "execute"
    /\ last.pre.sid = "s1"
    /\ last.pre.ptok = None
    /\ Len(reqs) = 1
    /\ "Authorization" \notin DOMAIN reqs[1].headers
    /\ last.exc = NoExc

\* C16: scope entry with a session id bound sends nothing and leaves the
\* binding; with none bound it sends exactly one start-session request and,
\* when that succeeds, binds the session_id of the answer.
ScopeEntryStartsIffUnbound ==
    last.op = "enter" =>
        IF Truthy(last.pre.sid)
        THEN /\ reqs = <<>>
             /\ session_id = last.pre.sid
             /\ last.exc = NoExc
             /\ depth = last.pre.depth + 1
        ELSE /\ Len(reqs) = 1
             /\ reqs[1].method = "POST"
             /\ reqs[1].url = StartSessionUrl
             /\ IF last.exc = NoExc
                THEN /\ session_id = Get(last.resp.body, "session_id")
                     /\ depth = last.pre.depth + 1
                ELSE /\ session_id = last.pre.sid
                     /\ depth = last.pre.depth

\* entry with s2 bound: no request, s2 still bound
ScopeEntryBoundWitness ==
    /\ last.op = "enter"
    /\ last.pre.sid = "s2"
    /\ reqs = <<>>
    /\ session_id = "s2"
    /\ depth = 1

\* the token of the sub-client that sends the requests of the recorded call
SendingToken(l) == IF l.op \in ExecOps THEN l.pre.ptok ELSE l.pre.stok

\* C17: every request carries Content-Type: application/json, and carries
\* Authorization if and only if the sending sub-client holds a (non-empty)
\* token, with the value "Bearer " followed by exactly that token; after
\* set_token(None) no Authorization header is sent.
HeadersFollowToken ==
    /\ \A i \in DOMAIN reqs :
        /\ "Content-Type" \in DOMAIN reqs[i].headers
        /\ reqs[i].headers["Content-Type"] = "application/json"
        /\ Truthy(SendingToken(last)) <=> "Authorization" \in DOMAIN reqs[i].headers
        /\ Truthy(SendingToken(last)) =>
            reqs[i].headers["Authorization"] = "Bearer " \o SendingToken(last)
    /\ prev.kind = "cleared" =>
        \A i \in DOMAIN reqs : DOMAIN reqs[i].headers = {"Content-Type"}

\* a request of the Session Client right after set_token(None) cleared t1
HeadersAfterClearWitness ==
    /\ prev.kind = "cleared"
    /\ prev.old = "t1"
    /\ last.op = "get_me"
    /\ Len(reqs) = 1
    /\ reqs[1].headers = ("Content-Type" :> "application/json")

\* C18: a login, register, start_session, end_session or execute that raised
\* leaves both tokens and the bound session id as they were.
FailedCallLeavesState ==
    (last.op \in {"login", "register", "start_session", "end_session"} \cup ExecOps
        /\ last.exc # NoExc) =>
        /\ sessions_token = last.pre.stok
        /\ phoebe_token = last.pre.ptok
        /\ session_id = last.pre.sid

\* end_session() whose request failed: s1 is still bound
FailedEndSessionWitness ==
    /\ last.op = "end_session"
    /\ last.arg = None
    /\ last.pre.sid = "s1"
    /\ last.exc.type = "SessionError"
    /\ Len(reqs) = 1
    /\ session_id = "s1"

EndSessionUnboundIsNoOp ==
    /\ (last.op \in {"end_session", "exit"} /\ last.arg = None /\ ~Truthy(last.pre.sid)) =>
        /\ reqs = <<>>
        /\ last.exc = BodyExc(last.bodyErr)
        /\ sessions_token = last.pre.stok
        /\ phoebe_token = last.pre.ptok
        /\ session_id = last.pre.sid
    /\ (prev.kind = "ended" /\ last.op = "exit") => reqs = <<>>

\* scope exit right after the body ended the bound s1 itself
EndSessionUnboundWitness ==
    /\ prev.kind = "ended"
    /\ prev.old = "s1"
    /\ last.op = "exit"
    /\ last.bodyErr = None
    /\ reqs = <<>>
    /\ last.exc = NoExc

====
